---------------------------- MODULE Spec2Model ----------------------------
(***************************************************************************)
(* Model of manager/generate_eks.py: the deep-merge overlay operation and  *)
(* the pipeline that compiles a cluster configmap into an eksctl cluster   *)
(* descriptor.                                                             *)
(*                                                                         *)
(* Values.  A Python value is a tagged node: S(x) is a non-dict value      *)
(* (string, int, bool, list), D(f) is a dict whose items are the function  *)
(* f from keys to nodes.  isinstance(v, dict) is the test v.t = "d".       *)
(* Strings the code inspects or builds (instance types, str(n), f"..Mi")   *)
(* are sequences of one-character strings; other strings are atoms.        *)
(***************************************************************************)
EXTENDS Integers, Sequences, FiniteSets, TLC

VARIABLES
    cluster_configmap,   \* the loaded configuration document
    pc,                  \* position inside generate_eks
    operator_nodegroup,
    worker_nodegroup,
    backup_nodegroup,
    eks,                 \* the cluster descriptor under assembly
    stdout,              \* sequence of documents printed
    error,               \* exception that ended the run, or "none"
    a, b, c,             \* arguments of merge_override
    mpc,                 \* position of the merge_override driver
    ab, abb, ab_c, bc, a_bc   \* results of the merge_override calls

egvars == <<cluster_configmap, pc, operator_nodegroup, worker_nodegroup,
            backup_nodegroup, eks, stdout, error>>
mvars == <<a, b, c, mpc, ab, abb, ab_c, bc, a_bc>>
vars == <<cluster_configmap, pc, operator_nodegroup, worker_nodegroup,
          backup_nodegroup, eks, stdout, error,
          a, b, c, mpc, ab, abb, ab_c, bc, a_bc>>

---------------------------------------------------------------------------
(* Python values *)

S(x) == [t |-> "s", v |-> x]
D(f) == [t |-> "d", v |-> f]
IsDict(n) == n.t = "d"
EmptyItems == [k \in {} |-> S(0)]
EmptyDict == D(EmptyItems)
KeysOf(n) == DOMAIN n.v

---------------------------------------------------------------------------
(* merge_override: "merges b into a".  The loop `for key in b` is the      *)
(* fold merge_loop over the keys of b; m is the current content of the     *)
(* destination dict, which the code mutates in place and returns.          *)

RECURSIVE merge_override(_, _)
RECURSIVE merge_loop(_, _, _)

\* merge_step with the collision branch keeping the destination's value
merge_step_keep(m, src, key) ==
    IF key \in DOMAIN m
    THEN IF IsDict(m[key]) /\ IsDict(src[key])
         THEN [m EXCEPT ![key] = merge_override(m[key], src[key])]
         ELSE m
    ELSE m @@ (key :> src[key])

\* merge_step accumulating colliding numbers instead of overwriting them
merge_step_append(m, src, key) ==
    IF key \in DOMAIN m
    THEN IF IsDict(m[key]) /\ IsDict(src[key])
         THEN [m EXCEPT ![key] = merge_override(m[key], src[key])]
         ELSE IF ~IsDict(m[key]) /\ ~IsDict(src[key])
              THEN [m EXCEPT ![key] = S(m[key].v + src[key].v)]
              ELSE [m EXCEPT ![key] = src[key]]
    ELSE m @@ (key :> src[key])

\* merge_step without the final else branch: new keys are not added
merge_step_noadd(m, src, key) ==
    IF key \in DOMAIN m
    THEN IF IsDict(m[key]) /\ IsDict(src[key])
         THEN [m EXCEPT ![key] = merge_override(m[key], src[key])]
         ELSE [m EXCEPT ![key] = src[key]]
    ELSE m

merge_step(m, src, key) ==
    IF key \in DOMAIN m
    THEN IF IsDict(m[key]) /\ IsDict(src[key])
         THEN [m EXCEPT ![key] = merge_override(m[key], src[key])]
         ELSE [m EXCEPT ![key] = src[key]]
    ELSE m @@ (key :> src[key])

merge_loop(m, src, keys) ==
    IF keys = {} THEN m
    ELSE LET key == CHOOSE k \in keys : TRUE
         IN  merge_loop(merge_step(m, src, key), src, keys \ {key})

merge_override(dst, src) == D(merge_loop(dst.v, src.v, DOMAIN src.v))

---------------------------------------------------------------------------
(* Strings as sequences of characters *)

startswith(s, prefix) ==
    /\ Len(s) >= Len(prefix)
    /\ SubSeq(s, 1, Len(prefix)) = prefix

Digits == <<"0", "1", "2", "3", "4", "5", "6", "7", "8", "9">>

\* str(n) for a non-negative int: its decimal digits, most significant first
RECURSIVE str(_)
str(n) == IF n < 10 THEN <<Digits[n + 1]>>
          ELSE str(n \div 10) \o <<Digits[(n % 10) + 1]>>

inf1_xlarge   == <<"i", "n", "f", "1", ".", "x", "l", "a", "r", "g", "e">>
inf1_2xlarge  == <<"i", "n", "f", "1", ".", "2", "x", "l", "a", "r", "g", "e">>
inf1_6xlarge  == <<"i", "n", "f", "1", ".", "6", "x", "l", "a", "r", "g", "e">>
inf1_24xlarge == <<"i", "n", "f", "1", ".", "2", "4", "x", "l", "a", "r", "g", "e">>
inf1_3xlarge  == <<"i", "n", "f", "1", ".", "3", "x", "l", "a", "r", "g", "e">>
p2_xlarge     == <<"p", "2", ".", "x", "l", "a", "r", "g", "e">>
g4dn_xlarge   == <<"g", "4", "d", "n", ".", "x", "l", "a", "r", "g", "e">>
m5_large      == <<"m", "5", ".", "l", "a", "r", "g", "e">>
t3_medium     == <<"t", "3", ".", "m", "e", "d", "i", "u", "m">>
mixed         == <<"m", "i", "x", "e", "d">>

---------------------------------------------------------------------------
(* Node-group templates and overlays *)

Reserved ==
    D(("cpu" :> S("150m")) @@ ("memory" :> S("300Mi"))
      @@ ("ephemeral-storage" :> S("1Gi")))

default_nodegroup ==
    D(("ami" :> S("auto"))
      @@ ("iam" :> D("withAddonPolicies" :> D("autoScaler" :> S(TRUE))))
      @@ ("kubeletExtraConfig" :>
            D(("kubeReserved" :> Reserved)
              @@ ("kubeReservedCgroup" :> S("/kube-reserved"))
              @@ ("systemReserved" :> Reserved)
              @@ ("evictionHard" :>
                    D(("memory.available" :> S("200Mi"))
                      @@ ("nodefs.available" :> S("5%")))))))

\* deepcopy: values carry no identity, a copy is the value itself
deepcopy(n) == n

apply_worker_settings(nodegroup) ==
    LET worker_settings ==
          D(("name" :> S("ng-cortex-worker-on-demand"))
            @@ ("labels" :> D("workload" :> S("true")))
            @@ ("taints" :> D("workload" :> S("true:NoSchedule")))
            @@ ("tags" :>
                  D(("k8s.io/cluster-autoscaler/enabled" :> S("true"))
                    @@ ("k8s.io/cluster-autoscaler/node-template/label/workload"
                          :> S("true")))))
    IN  merge_override(nodegroup, worker_settings)

\* apply_clusterconfig without the special case for min_instances = 0
apply_clusterconfig_nozero(nodegroup, config) ==
    LET clusterconfig_settings ==
          D(("instanceType" :> config["instance_type"])
            @@ ("availabilityZones" :> config["availability_zones"])
            @@ ("volumeSize" :> config["instance_volume_size"])
            @@ ("minSize" :> config["min_instances"])
            @@ ("maxSize" :> config["max_instances"])
            @@ ("desiredCapacity" :> config["min_instances"]))
    IN  merge_override(nodegroup, clusterconfig_settings)

\* apply_clusterconfig with minSize and maxSize exchanged
apply_clusterconfig_swapped(nodegroup, config) ==
    LET desired_capacity ==
          IF config["min_instances"].v = 0 THEN S(1)
          ELSE config["min_instances"]
        clusterconfig_settings ==
          D(("instanceType" :> config["instance_type"])
            @@ ("availabilityZones" :> config["availability_zones"])
            @@ ("volumeSize" :> config["instance_volume_size"])
            @@ ("minSize" :> config["max_instances"])
            @@ ("maxSize" :> config["min_instances"])
            @@ ("desiredCapacity" :> desired_capacity))
    IN  merge_override(nodegroup, clusterconfig_settings)

apply_clusterconfig(nodegroup, config) ==
    LET desired_capacity ==
          IF config["min_instances"].v = 0 THEN S(1)
          ELSE config["min_instances"]
        clusterconfig_settings ==
          D(("instanceType" :> config["instance_type"])
            @@ ("availabilityZones" :> config["availability_zones"])
            @@ ("volumeSize" :> config["instance_volume_size"])
            @@ ("minSize" :> config["min_instances"])
            @@ ("maxSize" :> config["max_instances"])
            @@ ("desiredCapacity" :> desired_capacity))
    IN  merge_override(nodegroup, clusterconfig_settings)

\* Requires config["spot_config"] to be a dict holding the five keys read.
apply_spot_settings(nodegroup, config) ==
    LET spot_config == config["spot_config"].v
        spot_settings ==
          D(("name" :> S("ng-cortex-worker-spot"))
            @@ ("instanceType" :> S(mixed))
            @@ ("instancesDistribution" :>
                  D(("instanceTypes" :> spot_config["instance_distribution"])
                    @@ ("onDemandBaseCapacity" :>
                          spot_config["on_demand_base_capacity"])
                    @@ ("onDemandPercentageAboveBaseCapacity" :>
                          spot_config["on_demand_percentage_above_base_capacity"])
                    @@ ("maxPrice" :> spot_config["max_price"])
                    @@ ("spotInstancePools" :> spot_config["instance_pools"])))
            @@ ("labels" :> D("lifecycle" :> S("Ec2Spot"))))
    IN  merge_override(nodegroup, spot_settings)

apply_gpu_settings(nodegroup) ==
    LET gpu_settings ==
          D(("tags" :>
                D(("k8s.io/cluster-autoscaler/node-template/label/nvidia.com/gpu"
                     :> S("true"))
                  @@ ("k8s.io/cluster-autoscaler/node-template/taint/dedicated"
                        :> S("nvidia.com/gpu=true"))))
            @@ ("labels" :> D("nvidia.com/gpu" :> S("true")))
            @@ ("taints" :> D("nvidia.com/gpu" :> S("true:NoSchedule"))))
    IN  merge_override(nodegroup, gpu_settings)

\* is_gpu testing only the "g" prefix
is_gpu_only_g(instance_type) == startswith(instance_type, <<"g">>)

is_gpu(instance_type) ==
    startswith(instance_type, <<"g">>) \/ startswith(instance_type, <<"p">>)

\* get_asic_resources with a chip count of 2 for inf1.2xlarge
get_asic_resources_2x(instance_type) ==
    LET no_hugepages_2Mi == 128
        hugepages_mem(n) == str(no_hugepages_2Mi * n) \o <<"M", "i">>
        no_chips ==
          IF instance_type = inf1_xlarge THEN 1
          ELSE IF instance_type = inf1_2xlarge THEN 2
          ELSE IF instance_type = inf1_6xlarge THEN 4
          ELSE IF instance_type = inf1_24xlarge THEN 16
          ELSE 0
    IN  <<no_chips, hugepages_mem(no_chips)>>

get_asic_resources(instance_type) ==
    LET no_hugepages_2Mi == 128
        hugepages_mem(n) == str(no_hugepages_2Mi * n) \o <<"M", "i">>
        no_chips ==
          IF instance_type \in {inf1_xlarge, inf1_2xlarge} THEN 1
          ELSE IF instance_type = inf1_6xlarge THEN 4
          ELSE IF instance_type = inf1_24xlarge THEN 16
          ELSE 0
    IN  <<no_chips, hugepages_mem(no_chips)>>

apply_asic_settings(nodegroup, instance_type) ==
    LET res == get_asic_resources(instance_type)
        no_chips == res[1]
        hugepages_mem == res[2]
        asic_settings ==
          D(("ami" :> S("ami-07a7b48058cfe1a73"))
            @@ ("tags" :>
                  D(("k8s.io/cluster-autoscaler/node-template/label/aws.amazon.com/infa"
                       :> S("true"))
                    @@ ("k8s.io/cluster-autoscaler/node-template/taint/dedicated"
                          :> S("aws.amazon.com/infa=true"))
                    @@ ("k8s.io/cluster-autoscaler/node-template/resources/aws.amazon.com/infa"
                          :> S(str(no_chips)))
                    @@ ("k8s.io/cluster-autoscaler/node-template/resources/hugepages-2Mi"
                          :> S(hugepages_mem))))
            @@ ("labels" :> D("aws.amazon.com/infa" :> S("true")))
            @@ ("taints" :> D("aws.amazon.com/infa" :> S("true:NoSchedule"))))
    IN  merge_override(nodegroup, asic_settings)

\* is_asic testing the shorter prefix "in"
is_asic_in(instance_type) == startswith(instance_type, <<"i", "n">>)

is_asic(instance_type) == startswith(instance_type, <<"i", "n", "f">>)

---------------------------------------------------------------------------
(* Configuration documents *)

MaxLen == 3          \* longest generated instance-type string
MaxInstances == 2    \* largest min_instances / max_instances

Alphabet == {"g", "p", "i", "n", "f"}

RECURSIVE StringsUpTo(_)
StringsUpTo(n) ==
    IF n = 0 THEN {<<>>}
    ELSE LET shorter == StringsUpTo(n - 1)
         IN  shorter \cup { Append(s, ch) : s \in shorter, ch \in Alphabet }

InstanceTypes ==
    StringsUpTo(MaxLen)
    \cup {inf1_xlarge, inf1_2xlarge, inf1_6xlarge, inf1_24xlarge, inf1_3xlarge,
          p2_xlarge, g4dn_xlarge, m5_large, t3_medium}

None == S("None")
IsNone(n) == ~IsDict(n) /\ n.v = "None"

SpotConfigBase ==
    ("instance_distribution" :> S(<<m5_large, t3_medium>>))
    @@ ("on_demand_base_capacity" :> S(0))
    @@ ("on_demand_percentage_above_base_capacity" :> S(50))
    @@ ("max_price" :> S("0.5"))
    @@ ("instance_pools" :> S(2))

\* spot_config values: null, or a mapping with on_demand_backup absent,
\* false or true
SpotConfigs ==
    {None, D(SpotConfigBase)}
    \cup { D(SpotConfigBase @@ ("on_demand_backup" :> S(flag))) : flag \in BOOLEAN }

ConfigBase(it, lo, hi, spot) ==
    ("cluster_name" :> S("cortex"))
    @@ ("region" :> S("us-west-2"))
    @@ ("availability_zones" :> S(<<"us-west-2a", "us-west-2b">>))
    @@ ("instance_type" :> S(it))
    @@ ("instance_volume_size" :> S(50))
    @@ ("min_instances" :> S(lo))
    @@ ("max_instances" :> S(hi))
    @@ ("spot" :> S(spot))

Configs ==
    { ConfigBase(it, lo, hi, spot) :
        it \in InstanceTypes, lo \in 0..MaxInstances, hi \in 0..MaxInstances,
        spot \in BOOLEAN }
    \cup
    { ConfigBase(it, lo, hi, spot) @@ ("spot_config" :> sc) :
        it \in InstanceTypes, lo \in 0..MaxInstances, hi \in 0..MaxInstances,
        spot \in BOOLEAN, sc \in SpotConfigs }

\* dict.get(key, default)
get(items, key, default) == IF key \in DOMAIN items THEN items[key] ELSE default

\* d[key] = value
setitem(n, key, value) ==
    D(IF key \in DOMAIN n.v THEN [n.v EXCEPT ![key] = value]
      ELSE n.v @@ (key :> value))

---------------------------------------------------------------------------
(* generate_eks, one action per block of statements *)

Init ==
    /\ cluster_configmap \in Configs
    /\ pc = "operator"
    /\ operator_nodegroup = EmptyDict
    /\ worker_nodegroup = EmptyDict
    /\ backup_nodegroup = EmptyDict
    /\ eks = EmptyDict
    /\ stdout = <<>>
    /\ error = "none"
    /\ a = EmptyDict /\ b = EmptyDict /\ c = EmptyDict
    /\ mpc = "idle"
    /\ ab = EmptyDict /\ abb = EmptyDict /\ ab_c = EmptyDict
    /\ bc = EmptyDict /\ a_bc = EmptyDict

BuildOperator ==
    /\ pc = "operator"
    /\ LET operator_settings ==
             D(("name" :> S("ng-cortex-operator"))
               @@ ("instanceType" :> S(t3_medium))
               @@ ("availabilityZones" :> cluster_configmap["availability_zones"])
               @@ ("minSize" :> S(1))
               @@ ("maxSize" :> S(1))
               @@ ("desiredCapacity" :> S(1)))
       IN  operator_nodegroup' =
             merge_override(deepcopy(default_nodegroup), operator_settings)
    /\ pc' = "worker"
    /\ UNCHANGED <<cluster_configmap, worker_nodegroup, backup_nodegroup,
                   eks, stdout, error>>
    /\ UNCHANGED mvars

BuildWorker ==
    /\ pc = "worker"
    /\ worker_nodegroup' =
         apply_clusterconfig(apply_worker_settings(deepcopy(default_nodegroup)),
                             cluster_configmap)
    /\ pc' = "spot"
    /\ UNCHANGED <<cluster_configmap, operator_nodegroup, backup_nodegroup,
                   eks, stdout, error>>
    /\ UNCHANGED mvars

\* the spot block with the missing key tolerated: the overlay is skipped
SpotStep_tolerant ==
    /\ pc = "spot"
    /\ IF cluster_configmap["spot"].v
          /\ "spot_config" \in DOMAIN cluster_configmap
          /\ IsDict(cluster_configmap["spot_config"])
       THEN worker_nodegroup' =
              apply_spot_settings(worker_nodegroup, cluster_configmap)
       ELSE UNCHANGED worker_nodegroup
    /\ pc' = "gpu"
    /\ UNCHANGED <<cluster_configmap, operator_nodegroup, backup_nodegroup,
                   eks, stdout, error>>
    /\ UNCHANGED mvars

\* if cluster_configmap["spot"]: apply_spot_settings(...).  Building the
\* overlay reads config["spot_config"][...] first: KeyError when the key is
\* absent, TypeError when its value is None.
SpotStep ==
    /\ pc = "spot"
    /\ IF ~cluster_configmap["spot"].v
       THEN /\ pc' = "gpu"
            /\ UNCHANGED <<worker_nodegroup, error>>
       ELSE IF "spot_config" \notin DOMAIN cluster_configmap
       THEN /\ pc' = "failed"
            /\ error' = "KeyError"
            /\ UNCHANGED worker_nodegroup
       ELSE IF IsNone(cluster_configmap["spot_config"])
       THEN /\ pc' = "failed"
            /\ error' = "TypeError"
            /\ UNCHANGED worker_nodegroup
       ELSE /\ worker_nodegroup' =
                 apply_spot_settings(worker_nodegroup, cluster_configmap)
            /\ pc' = "gpu"
            /\ UNCHANGED error
    /\ UNCHANGED <<cluster_configmap, operator_nodegroup, backup_nodegroup,
                   eks, stdout>>
    /\ UNCHANGED mvars

GpuStep ==
    /\ pc = "gpu"
    /\ worker_nodegroup' =
         IF is_gpu(cluster_configmap["instance_type"].v)
         THEN apply_gpu_settings(worker_nodegroup)
         ELSE worker_nodegroup
    /\ pc' = "asic"
    /\ UNCHANGED <<cluster_configmap, operator_nodegroup, backup_nodegroup,
                   eks, stdout, error>>
    /\ UNCHANGED mvars

AsicStep ==
    /\ pc = "asic"
    /\ worker_nodegroup' =
         IF is_asic(cluster_configmap["instance_type"].v)
         THEN apply_asic_settings(worker_nodegroup,
                                  cluster_configmap["instance_type"].v)
         ELSE worker_nodegroup
    /\ pc' = "assemble"
    /\ UNCHANGED <<cluster_configmap, operator_nodegroup, backup_nodegroup,
                   eks, stdout, error>>
    /\ UNCHANGED mvars

Assemble ==
    /\ pc = "assemble"
    /\ eks' =
         D(("apiVersion" :> S("eksctl.io/v1alpha5"))
           @@ ("kind" :> S("ClusterConfig"))
           @@ ("metadata" :>
                 D(("name" :> cluster_configmap["cluster_name"])
                   @@ ("region" :> cluster_configmap["region"])
                   @@ ("version" :> S("1.16"))))
           @@ ("vpc" :> D("nat" :> D("gateway" :> S("Disable"))))
           @@ ("availabilityZones" :> cluster_configmap["availability_zones"])
           @@ ("cloudWatch" :>
                 D("clusterLogging" :> D("enableTypes" :> S(<<"*">>))))
           @@ ("nodeGroups" :> S(<<operator_nodegroup, worker_nodegroup>>)))
    /\ pc' = "backup"
    /\ UNCHANGED <<cluster_configmap, operator_nodegroup, worker_nodegroup,
                   backup_nodegroup, stdout, error>>
    /\ UNCHANGED mvars

\* the backup block without the accelerator overlays
BackupStep_plain ==
    /\ pc = "backup"
    /\ LET spot_config == get(cluster_configmap, "spot_config", None)
       IN  IF ~IsNone(spot_config)
              /\ get(spot_config.v, "on_demand_backup", S(FALSE)).v
           THEN LET ng == apply_clusterconfig(
                            apply_worker_settings(deepcopy(default_nodegroup)),
                            cluster_configmap)
                    ng0 == setitem(setitem(ng, "minSize", S(0)),
                                   "desiredCapacity", S(0))
                IN  /\ backup_nodegroup' = ng0
                    /\ eks' = setitem(eks, "nodeGroups",
                                      S(Append(eks.v["nodeGroups"].v, ng0)))
           ELSE UNCHANGED <<backup_nodegroup, eks>>
    /\ pc' = "print"
    /\ UNCHANGED <<cluster_configmap, operator_nodegroup, worker_nodegroup,
                   stdout, error>>
    /\ UNCHANGED mvars

BackupStep ==
    /\ pc = "backup"
    /\ LET spot_config == get(cluster_configmap, "spot_config", None)
           it == cluster_configmap["instance_type"].v
       IN  IF ~IsNone(spot_config)
              /\ get(spot_config.v, "on_demand_backup", S(FALSE)).v
           THEN LET ng1 == apply_clusterconfig(
                             apply_worker_settings(deepcopy(default_nodegroup)),
                             cluster_configmap)
                    ng2 == IF is_gpu(it) THEN apply_gpu_settings(ng1) ELSE ng1
                    ng3 == IF is_asic(it) THEN apply_asic_settings(ng2, it)
                           ELSE ng2
                    ng4 == setitem(setitem(ng3, "minSize", S(0)),
                                   "desiredCapacity", S(0))
                IN  /\ backup_nodegroup' = ng4
                    /\ eks' = setitem(eks, "nodeGroups",
                                      S(Append(eks.v["nodeGroups"].v, ng4)))
           ELSE UNCHANGED <<backup_nodegroup, eks>>
    /\ pc' = "print"
    /\ UNCHANGED <<cluster_configmap, operator_nodegroup, worker_nodegroup,
                   stdout, error>>
    /\ UNCHANGED mvars

\* print(yaml.dump(eks, ...)): the document written is the descriptor
PrintEks ==
    /\ pc = "print"
    /\ stdout' = Append(stdout, eks)
    /\ pc' = "done"
    /\ UNCHANGED <<cluster_configmap, operator_nodegroup, worker_nodegroup,
                   backup_nodegroup, eks, error>>
    /\ UNCHANGED mvars

Next ==
    \/ BuildOperator
    \/ BuildWorker
    \/ SpotStep
    \/ GpuStep
    \/ AsicStep
    \/ Assemble
    \/ BackupStep
    \/ PrintEks

Spec == Init /\ [][Next]_vars

---------------------------------------------------------------------------
(* Bounded nested mappings used as arguments of merge_override *)

MaxEntries == 2

MKeys == {"x", "y"}
MLeaves == {S(1), S(2)}

DictsOver(vals) ==
    { D(f) : f \in UNION { [ks -> vals] : ks \in SUBSET MKeys } }

RECURSIVE Entries(_)
RECURSIVE EntriesSum(_, _)
EntriesSum(n, keys) ==
    IF keys = {} THEN 0
    ELSE LET k == CHOOSE x \in keys : TRUE
         IN  1 + Entries(n.v[k]) + EntriesSum(n, keys \ {k})
Entries(n) == IF IsDict(n) THEN EntriesSum(n, DOMAIN n.v) ELSE 0

Mappings1 == DictsOver(MLeaves)
Mappings == { m \in DictsOver(MLeaves \cup Mappings1) : Entries(m) <= MaxEntries }

---------------------------------------------------------------------------
(* Driver of merge_override: each call works on fresh copies of its        *)
(* arguments, so a, b and c keep their initial values.                     *)

InitMerge ==
    /\ a \in Mappings
    /\ b \in Mappings
    /\ c \in Mappings
    /\ mpc = "start"
    /\ ab = EmptyDict /\ abb = EmptyDict /\ ab_c = EmptyDict
    /\ bc = EmptyDict /\ a_bc = EmptyDict
    /\ cluster_configmap = EmptyItems
    /\ pc = "idle"
    /\ operator_nodegroup = EmptyDict
    /\ worker_nodegroup = EmptyDict
    /\ backup_nodegroup = EmptyDict
    /\ eks = EmptyDict
    /\ stdout = <<>>
    /\ error = "none"

MergeAB ==
    /\ mpc = "start"
    /\ ab' = merge_override(a, b)
    /\ mpc' = "ab"
    /\ UNCHANGED <<a, b, c, abb, ab_c, bc, a_bc>>
    /\ UNCHANGED egvars

MergeABAgain ==
    /\ mpc = "ab"
    /\ abb' = merge_override(ab, b)
    /\ mpc' = "abb"
    /\ UNCHANGED <<a, b, c, ab, ab_c, bc, a_bc>>
    /\ UNCHANGED egvars

MergeABThenC ==
    /\ mpc = "abb"
    /\ ab_c' = merge_override(ab, c)
    /\ mpc' = "ab_c"
    /\ UNCHANGED <<a, b, c, ab, abb, bc, a_bc>>
    /\ UNCHANGED egvars

MergeBC ==
    /\ mpc = "ab_c"
    /\ bc' = merge_override(b, c)
    /\ mpc' = "bc"
    /\ UNCHANGED <<a, b, c, ab, abb, ab_c, a_bc>>
    /\ UNCHANGED egvars

MergeAThenBC ==
    /\ mpc = "bc"
    /\ a_bc' = merge_override(a, bc)
    /\ mpc' = "done"
    /\ UNCHANGED <<a, b, c, ab, abb, ab_c, bc>>
    /\ UNCHANGED egvars

NextMerge == MergeAB \/ MergeABAgain \/ MergeABThenC \/ MergeBC \/ MergeAThenBC

SpecMerge == InitMerge /\ [][NextMerge]_vars

---------------------------------------------------------------------------
(* Properties of generate_eks *)

Spot == cluster_configmap["spot"].v
MinInstances == cluster_configmap["min_instances"].v
MaxInstancesOf == cluster_configmap["max_instances"].v
InstanceType == cluster_configmap["instance_type"].v
HasSpotConfigKey == "spot_config" \in DOMAIN cluster_configmap
BackupRequested ==
    /\ HasSpotConfigKey
    /\ IsDict(cluster_configmap["spot_config"])
    /\ "on_demand_backup" \in KeysOf(cluster_configmap["spot_config"])
    /\ cluster_configmap["spot_config"].v["on_demand_backup"].v

WorkerBuilt == pc \in {"spot", "gpu", "asic", "assemble", "backup", "print",
                       "done", "failed"}
OverlaysDone == pc \in {"assemble", "backup", "print", "done"}
BackupDone == pc \in {"print", "done"}
Printed == pc = "done"
NodeGroupsOf(doc) == doc.v["nodeGroups"].v

\* C1: with spot = false the descriptor printed holds exactly the operator
\* group and the worker group, whatever spot_config.on_demand_backup is.
C1_NoBackupWithoutSpot ==
    (Printed /\ ~Spot) =>
        NodeGroupsOf(stdout[1]) = <<operator_nodegroup, worker_nodegroup>>

SizeKeys == {"minSize", "desiredCapacity"}

\* C2 as stated: with spot and on_demand_backup both true a third group is
\* appended with minSize = 0 and desiredCapacity = 0, and every other key has
\* the same value as in the primary worker group.
C2_BackupIdenticalToWorker ==
    (Printed /\ Spot /\ BackupRequested) =>
        /\ Len(NodeGroupsOf(stdout[1])) = 3
        /\ LET worker == NodeGroupsOf(stdout[1])[2]
               backup == NodeGroupsOf(stdout[1])[3]
           IN  /\ backup.v["minSize"].v = 0
               /\ backup.v["desiredCapacity"].v = 0
               /\ KeysOf(backup) = KeysOf(worker)
               /\ \A k \in KeysOf(worker) \ SizeKeys : backup.v[k] = worker.v[k]

SpotKeys == {"name", "instanceType", "instancesDistribution", "labels"}

\* C2 amended: the third group has minSize = 0 and desiredCapacity = 0 and
\* differs from the primary worker group only in what the spot overlay set:
\* it keeps the on-demand name and the configured instance type, has no
\* instancesDistribution and no lifecycle label; every other key, and every
\* other label, has the same value in both groups.
C2_BackupIsWorkerWithoutSpot ==
    (Printed /\ Spot /\ BackupRequested) =>
        /\ Len(NodeGroupsOf(stdout[1])) = 3
        /\ LET worker == NodeGroupsOf(stdout[1])[2]
               backup == NodeGroupsOf(stdout[1])[3]
           IN  /\ backup.v["minSize"].v = 0
               /\ backup.v["desiredCapacity"].v = 0
               /\ KeysOf(backup) = KeysOf(worker) \ {"instancesDistribution"}
               /\ \A k \in KeysOf(backup) \ (SizeKeys \cup SpotKeys) :
                     backup.v[k] = worker.v[k]
               /\ backup.v["name"].v = "ng-cortex-worker-on-demand"
               /\ worker.v["name"].v = "ng-cortex-worker-spot"
               /\ backup.v["instanceType"].v = InstanceType
               /\ worker.v["instanceType"].v = mixed
               /\ KeysOf(backup.v["labels"])
                     = KeysOf(worker.v["labels"]) \ {"lifecycle"}
               /\ \A l \in KeysOf(backup.v["labels"]) :
                     backup.v["labels"].v[l] = worker.v["labels"].v[l]

HasGpuOverlay(ng) ==
    /\ "nvidia.com/gpu" \in KeysOf(ng.v["labels"])
    /\ "nvidia.com/gpu" \in KeysOf(ng.v["taints"])

HasAsicOverlay(ng) ==
    /\ "aws.amazon.com/infa" \in KeysOf(ng.v["labels"])
    /\ "aws.amazon.com/infa" \in KeysOf(ng.v["taints"])
    /\ ng.v["ami"].v = "ami-07a7b48058cfe1a73"

C2_Witness ==
    /\ Printed /\ Spot /\ BackupRequested
    /\ Len(NodeGroupsOf(stdout[1])) = 3
    /\ HasGpuOverlay(NodeGroupsOf(stdout[1])[3])
    /\ MinInstances > 0

\* C3: once built, the worker group has minSize = min_instances,
\* maxSize = max_instances and desiredCapacity = 1 if min_instances = 0 and
\* min_instances otherwise; the spot, GPU and ASIC overlays keep all three.
C3_WorkerCapacity ==
    WorkerBuilt =>
        /\ worker_nodegroup.v["minSize"].v = MinInstances
        /\ worker_nodegroup.v["maxSize"].v = MaxInstancesOf
        /\ worker_nodegroup.v["desiredCapacity"].v
              = (IF MinInstances = 0 THEN 1 ELSE MinInstances)
        /\ Printed => NodeGroupsOf(stdout[1])[2] = worker_nodegroup

C3_Witness ==
    /\ Printed /\ Spot /\ MinInstances = 0
    /\ HasAsicOverlay(worker_nodegroup)
    /\ "instancesDistribution" \in KeysOf(worker_nodegroup)

FirstIs(s, chars) == Len(s) >= 1 /\ s[1] \in chars
BeginsInf(s) == Len(s) >= 3 /\ s[1] = "i" /\ s[2] = "n" /\ s[3] = "f"

\* C4: after the overlay steps the worker group carries the GPU overlay iff
\* instance_type starts with "g" or "p", the ASIC overlay iff it starts with
\* "inf", and never both, also when the spot overlay set instanceType to
\* "mixed".
C4_AcceleratorOverlays ==
    OverlaysDone =>
        /\ HasGpuOverlay(worker_nodegroup) <=> FirstIs(InstanceType, {"g", "p"})
        /\ HasAsicOverlay(worker_nodegroup) <=> BeginsInf(InstanceType)
        /\ ~(HasGpuOverlay(worker_nodegroup) /\ HasAsicOverlay(worker_nodegroup))
        /\ (\/ "nvidia.com/gpu" \in KeysOf(worker_nodegroup.v["labels"])
            \/ "nvidia.com/gpu" \in KeysOf(worker_nodegroup.v["taints"]))
              => HasGpuOverlay(worker_nodegroup)
        /\ (\/ "aws.amazon.com/infa" \in KeysOf(worker_nodegroup.v["labels"])
            \/ "aws.amazon.com/infa" \in KeysOf(worker_nodegroup.v["taints"]))
              => HasAsicOverlay(worker_nodegroup)

C4_Witness ==
    /\ Printed /\ Spot
    /\ worker_nodegroup.v["instanceType"].v = mixed
    /\ HasGpuOverlay(worker_nodegroup)
    /\ FirstIs(InstanceType, {"p"})

\* the chip-count table of section 4.5
TableChips(it) ==
    CASE it = inf1_xlarge -> 1
      [] it = inf1_2xlarge -> 1
      [] it = inf1_6xlarge -> 4
      [] it = inf1_24xlarge -> 16
      [] OTHER -> 0

\* value of a string of decimal digits
RECURSIVE DecimalValue(_)
DecimalValue(s) ==
    IF s = <<>> THEN 0
    ELSE LET d == CHOOSE i \in 0..9 : Digits[i + 1] = s[Len(s)]
         IN  10 * DecimalValue(SubSeq(s, 1, Len(s) - 1)) + d

\* s is the decimal string of n: digits only, no leading zero, value n
IsDecimalOf(s, n) ==
    /\ Len(s) >= 1
    /\ \A i \in 1..Len(s) : \E d \in 1..10 : Digits[d] = s[i]
    /\ Len(s) > 1 => s[1] # "0"
    /\ DecimalValue(s) = n

ChipsTag == "k8s.io/cluster-autoscaler/node-template/resources/aws.amazon.com/infa"
HugepagesTag == "k8s.io/cluster-autoscaler/node-template/resources/hugepages-2Mi"

HasAsicResources(ng, chips, mem) ==
    /\ ng.v["tags"].v[ChipsTag].v = chips
    /\ ng.v["tags"].v[HugepagesTag].v = mem

\* C5: get_asic_resources returns the chip count of the table (0 for every
\* other instance type) and the decimal string of 128 * chips followed by
\* "Mi"; the worker group and the backup group of an inf instance type carry
\* exactly these two values in their accelerator resource tags.
C5_AsicResources ==
    LET res == get_asic_resources(InstanceType)
        mem == res[2]
    IN  /\ res[1] = TableChips(InstanceType)
        /\ Len(mem) >= 3
        /\ SubSeq(mem, Len(mem) - 1, Len(mem)) = <<"M", "i">>
        /\ IsDecimalOf(SubSeq(mem, 1, Len(mem) - 2), 128 * TableChips(InstanceType))
        /\ (OverlaysDone /\ BeginsInf(InstanceType)) =>
              /\ IsDecimalOf(worker_nodegroup.v["tags"].v[ChipsTag].v,
                             TableChips(InstanceType))
              /\ HasAsicResources(worker_nodegroup, str(res[1]), mem)
        /\ (BackupDone /\ BeginsInf(InstanceType) /\ BackupRequested) =>
              /\ Len(NodeGroupsOf(eks)) = 3
              /\ HasAsicResources(NodeGroupsOf(eks)[3], str(res[1]), mem)
              /\ NodeGroupsOf(eks)[3] = backup_nodegroup

C5_Witness ==
    /\ Printed /\ BackupRequested
    /\ InstanceType = inf1_24xlarge
    /\ HasAsicResources(NodeGroupsOf(stdout[1])[3], <<"1", "6">>,
                        <<"2", "0", "4", "8", "M", "i">>)
    /\ HasAsicResources(NodeGroupsOf(stdout[1])[2], <<"1", "6">>,
                        <<"2", "0", "4", "8", "M", "i">>)

\* C9: with spot = true and no spot_config key the run ends in a KeyError at
\* the spot overlay and nothing is printed; with spot = false and no
\* spot_config key the run prints a descriptor with two node groups.
C9_MissingSpotConfig ==
    /\ (Spot /\ ~HasSpotConfigKey) =>
          /\ stdout = <<>>
          /\ pc \in {"operator", "worker", "spot", "failed"}
          /\ pc = "failed" => error = "KeyError"
          /\ pc # "failed" => error = "none"
    /\ (~Spot /\ ~HasSpotConfigKey) =>
          /\ error = "none" /\ pc # "failed"
          /\ Printed => /\ Len(stdout) = 1
                        /\ Len(NodeGroupsOf(stdout[1])) = 2

C9_Witness ==
    /\ Spot /\ ~HasSpotConfigKey
    /\ pc = "failed" /\ error = "KeyError" /\ stdout = <<>>

Bounded(ng) ==
    /\ ng.v["minSize"].v <= ng.v["desiredCapacity"].v
    /\ ng.v["desiredCapacity"].v <= ng.v["maxSize"].v

\* C10 as stated: for 0 <= min_instances <= max_instances every node group
\* printed satisfies minSize <= desiredCapacity <= maxSize.
C10_CapacityOrdered ==
    (Printed /\ 0 <= MinInstances /\ MinInstances <= MaxInstancesOf) =>
        \A i \in 1..Len(NodeGroupsOf(stdout[1])) :
            Bounded(NodeGroupsOf(stdout[1])[i])

\* C10 amended: the same for 0 <= min_instances <= max_instances and
\* max_instances >= 1.
C10_CapacityOrderedPositiveMax ==
    (Printed /\ 0 <= MinInstances /\ MinInstances <= MaxInstancesOf
             /\ MaxInstancesOf >= 1) =>
        \A i \in 1..Len(NodeGroupsOf(stdout[1])) :
            Bounded(NodeGroupsOf(stdout[1])[i])

C10_Witness ==
    /\ Printed /\ MinInstances = 0 /\ MaxInstancesOf >= 1
    /\ Len(NodeGroupsOf(stdout[1])) = 3
    /\ \A i \in 1..3 : Bounded(NodeGroupsOf(stdout[1])[i])

---------------------------------------------------------------------------
(* Properties of merge_override *)

\* The merge as section 4.1 states it, key by key over the union of keys.
RECURSIVE MergedAsStated(_, _)
MergedAsStated(x, y) ==
    D([k \in KeysOf(x) \cup KeysOf(y) |->
        IF k \notin KeysOf(y) THEN x.v[k]
        ELSE IF k \notin KeysOf(x) THEN y.v[k]
        ELSE IF IsDict(x.v[k]) /\ IsDict(y.v[k])
             THEN MergedAsStated(x.v[k], y.v[k])
             ELSE y.v[k]])

\* C6: merge_override(a, b) is a mapping over the union of the keys of a
\* and b; a key only in a keeps a's value, a key only in b gets b's value,
\* a key in both gets the recursive merge when both values are mappings and
\* b's value otherwise.
C6_MergeContract ==
    mpc # "start" =>
        /\ IsDict(ab)
        /\ KeysOf(ab) = KeysOf(a) \cup KeysOf(b)
        /\ ab = MergedAsStated(a, b)

C6_Witness ==
    /\ mpc = "ab"
    /\ \E k \in KeysOf(a) \cap KeysOf(b) :
          /\ IsDict(a.v[k]) /\ IsDict(b.v[k])
          /\ KeysOf(a.v[k]) # KeysOf(b.v[k])
          /\ KeysOf(a.v[k]) # {}

\* C7: merging the same overlay b into a twice gives the same mapping as
\* merging it once.
C7_MergeIdempotent ==
    mpc \in {"abb", "ab_c", "bc", "done"} => abb = ab

C7_Witness ==
    /\ mpc = "abb"
    /\ ab # a
    /\ ab # b
    /\ \E k \in KeysOf(a) \cap KeysOf(b) : IsDict(a.v[k]) /\ IsDict(b.v[k])

\* a key path on which a holds a mapping, b a non-mapping value and c a
\* mapping (the three arguments being mappings at every key above it)
RECURSIVE Clash(_, _, _)
Clash(x, y, z) ==
    \E k \in KeysOf(x) \cap KeysOf(y) \cap KeysOf(z) :
        /\ IsDict(x.v[k]) /\ IsDict(z.v[k])
        /\ \/ ~IsDict(y.v[k])
           \/ Clash(x.v[k], y.v[k], z.v[k])

\* C8 as stated: merge_override(merge_override(a, b), c) equals
\* merge_override(a, merge_override(b, c)) for all nested mappings.
C8_MergeAssociative ==
    mpc = "done" => ab_c = a_bc

\* C8 amended: the two groupings agree whenever no key path holds a mapping
\* in a, a non-mapping value in b and a mapping in c.
C8_MergeAssociativeNoClash ==
    (mpc = "done" /\ ~Clash(a, b, c)) => ab_c = a_bc

C8_Witness ==
    /\ mpc = "done"
    /\ ~Clash(a, b, c)
    /\ ab_c \notin {a, b, c}
    /\ \E k \in KeysOf(a) \cap KeysOf(b) \cap KeysOf(c) :
          IsDict(a.v[k]) /\ IsDict(b.v[k]) /\ IsDict(c.v[k])

=============================================================================
